---------------------------- MODULE Spec2Model ----------------------------
(***************************************************************************)
(* Selective-Repeat sender (A) and receiver (B) of src/sr.c, run over the  *)
(* network emulator's two FIFO channels (loss, corruption, delay) and its  *)
(* single timer per endpoint.                                              *)
(***************************************************************************)
EXTENDS Integers, Sequences, FiniteSets, TLC

(* ------------------------- program constants -------------------------- *)
WINDOWSIZE == 6
SEQSPACE == 14
NOTINUSE == -1
PayloadLen == 20
AckFill == 48
CorruptByte == 122

(* ------------------------------ bounds -------------------------------- *)
\* number of messages layer 5 hands to A_output
MaxMsgs == 7
\* packets the two channels carry in all before they lose everything (Spec)
MaxCarried == 4
\* packets in flight at a time, both directions together (LinkSpec, WrapSpec)
MaxFlight == 1
\* number of messages layer 5 hands to A_output, one more than SEQSPACE (WrapSpec)
WrapMsgs == 15

VARIABLES
    buffer, windowfirst, windowlast, windowcount, A_nextseqnum,
    ack_received, timer_active, window_full,
    expectedseqnum, B_nextseqnum, recv_buffer, recv_base, packet_received,
    recv_windowsize,
    chanAB, chanBA, carried, timerA, nsim, accepted, delivered, last

senderVars == <<buffer, windowfirst, windowlast, windowcount, A_nextseqnum,
                ack_received, timer_active, window_full>>
receiverVars == <<expectedseqnum, B_nextseqnum, recv_buffer, recv_base,
                  packet_received, recv_windowsize>>
vars == <<buffer, windowfirst, windowlast, windowcount, A_nextseqnum,
          ack_received, timer_active, window_full,
          expectedseqnum, B_nextseqnum, recv_buffer, recv_base, packet_received,
          recv_windowsize,
          chanAB, chanBA, carried, timerA, nsim, accepted, delivered, last>>

(* ------------------------------ packets ------------------------------- *)
\* a struct pkt / payload with every byte zero (static storage before first use)
ZeroPayload == [i \in 0..(PayloadLen - 1) |-> 0]
ZeroPkt == [seqnum |-> 0, acknum |-> 0, checksum |-> 0, payload |-> ZeroPayload]

\* sr.c 44-45: the sum of the 20 payload bytes
SumPayload(p) ==
    p[0] + p[1] + p[2] + p[3] + p[4] + p[5] + p[6] + p[7] + p[8] + p[9]
    + p[10] + p[11] + p[12] + p[13] + p[14] + p[15] + p[16] + p[17] + p[18] + p[19]

ComputeChecksum(packet) ==
    packet.seqnum + packet.acknum + SumPayload(packet.payload)

IsCorrupted(packet) == ~(packet.checksum = ComputeChecksum(packet))

(* ----------------------- emulator (environment) ----------------------- *)
\* the k-th message of layer 5 (k from 0): 20 copies of the byte k + 1
MsgData(k) == [i \in 0..(PayloadLen - 1) |-> k + 1]

\* what the channel does with a packet handed to tolayer3, and how it arrives
Outcomes == {"ok", "lost"}
Arrivals == {"ok", "payload", "seqnum", "acknum"}

\* sr.c 13-19, 32-35: the channel overwrites part of the packet (header or
\* data) with 'z' and leaves the checksum field as it was
Corrupt(packet, how) ==
    CASE how = "payload" ->
            [packet EXCEPT !.payload = [packet.payload EXCEPT ![0] = CorruptByte]]
      [] how = "seqnum" -> [packet EXCEPT !.seqnum = CorruptByte]
      [] how = "acknum" -> [packet EXCEPT !.acknum = CorruptByte]
      [] OTHER -> packet

\* the two bounds on the channels: a budget of carried packets, a limit in flight
BudgetOpen == carried < MaxCarried
LinkOpen == Len(chanAB) + Len(chanBA) < MaxFlight
\* the same for B's reply to a packet that has just left the channel
ReplyOpen == Len(chanAB) + Len(chanBA) - 1 < MaxFlight

\* layer 5 has another message: at any time, or only once the window is empty
MoreMsgs == nsim < MaxMsgs
PacedMsgs == nsim < WrapMsgs /\ windowcount = 0

\* the channel after tolayer3(packet): the packet is lost or queued behind the others
tolayer3(chan, packet, how, open) ==
    IF how = "lost" \/ ~open THEN chan ELSE Append(chan, packet)

\* the count of carried packets after tolayer3, saturating at the budget
CarriedAfter(how, open) ==
    IF how = "lost" \/ ~open \/ carried >= MaxCarried THEN carried ELSE carried + 1

\* the timer after a sequence of starttimer / stoptimer calls
RECURSIVE TimerAfter(_, _)
TimerAfter(armed, calls) ==
    IF calls = <<>> THEN armed
    ELSE TimerAfter(Head(calls) = "start", Tail(calls))

\* what the last handler call was given and what it handed to the emulator
Event(op, branch, pkt, sent, calls) ==
    [op |-> op, branch |-> branch, pkt |-> pkt, sent |-> sent, timer |-> calls]

(* ------------------------------ sender A ------------------------------ *)
A_init ==
    /\ A_nextseqnum = 0
    /\ windowfirst = 0
    /\ windowlast = -1
    /\ windowcount = 0
    /\ ack_received = [i \in 0..(SEQSPACE - 1) |-> FALSE]
    /\ timer_active = [i \in 0..(WINDOWSIZE - 1) |-> FALSE]
    /\ buffer = [i \in 0..(WINDOWSIZE - 1) |-> ZeroPkt]
    /\ window_full = 0

MakeDataPkt_early(seqnum, data) ==
    LET p == [seqnum |-> seqnum, acknum |-> NOTINUSE, checksum |-> 0, payload |-> ZeroPayload]
    IN  [p EXCEPT !.checksum = ComputeChecksum(p), !.payload = data]

\* sr.c 81-85: the data packet for a message
MakeDataPkt(seqnum, data) ==
    LET p == [seqnum |-> seqnum, acknum |-> NOTINUSE, checksum |-> 0, payload |-> data]
    IN  [p EXCEPT !.checksum = ComputeChecksum(p)]

WindowNotFull_le == windowcount <= WINDOWSIZE

\* sr.c 76: the window has a free slot
WindowNotFull == windowcount < WINDOWSIZE

MarkUnacked_all(seqnum) == [s \in DOMAIN ack_received |-> FALSE]

\* sr.c 93: the sequence number given to a new packet is marked as not ACKed
MarkUnacked(seqnum) == [ack_received EXCEPT ![seqnum] = FALSE]

A_output(open, more) ==
    /\ more
    /\ nsim' = nsim + 1
    /\ LET message == MsgData(nsim) IN
       IF WindowNotFull
       THEN LET sendpkt == MakeDataPkt(A_nextseqnum, message)
                wl == (windowlast + 1) % WINDOWSIZE
            IN  /\ windowlast' = wl
                /\ buffer' = [buffer EXCEPT ![wl] = sendpkt]
                /\ windowcount' = windowcount + 1
                /\ ack_received' = MarkUnacked(sendpkt.seqnum)
                /\ \E how \in Outcomes :
                      /\ chanAB' = tolayer3(chanAB, sendpkt, how, open)
                      /\ carried' = CarriedAfter(how, open)
                /\ timerA' = TimerAfter(timerA, <<"start">>)
                /\ timer_active' = [timer_active EXCEPT ![wl] = TRUE]
                /\ A_nextseqnum' = (A_nextseqnum + 1) % SEQSPACE
                /\ accepted' = Append(accepted, message)
                /\ last' = Event("A_output", "accepted", ZeroPkt, <<sendpkt>>, <<"start">>)
                /\ UNCHANGED <<windowfirst, window_full>>
       ELSE /\ window_full' = window_full + 1
            /\ last' = Event("A_output", "full", ZeroPkt, <<>>, <<>>)
            /\ UNCHANGED <<buffer, windowfirst, windowlast, windowcount, A_nextseqnum,
                           ack_received, timer_active, chanAB, carried, timerA, accepted>>
    /\ UNCHANGED <<receiverVars, chanBA, delivered>>

\* sr.c 132-141: the ACK number lies between the first and last buffered seqnum
in_window(acknum) ==
    LET seqfirst == buffer[windowfirst].seqnum
        seqlast == buffer[windowlast].seqnum
    IN  IF seqfirst <= seqlast
        THEN acknum >= seqfirst /\ acknum <= seqlast
        ELSE acknum >= seqfirst \/ acknum <= seqlast

\* sr.c 143: a new ACK for a packet in the window
IsNewAck(packet) == in_window(packet.acknum) /\ ~ack_received[packet.acknum]

\* sr.c 150-163: the first window slot holding acknum, -1 when the loop ends without one
RECURSIVE FindIdx(_, _)
FindIdx(acknum, i) ==
    IF i >= windowcount THEN -1
    ELSE LET idx == (windowfirst + i) % WINDOWSIZE
         IN  IF buffer[idx].seqnum = acknum THEN idx ELSE FindIdx(acknum, i + 1)

RECURSIVE Slide_ge(_, _, _)
Slide_ge(first, count, acks) ==
    IF count >= 0 /\ acks[buffer[first].seqnum]
    THEN Slide_ge((first + 1) % WINDOWSIZE, count - 1, acks)
    ELSE [first |-> first, count |-> count]

Slide_once(first, count, acks) ==
    IF count > 0 /\ acks[buffer[first].seqnum]
    THEN [first |-> (first + 1) % WINDOWSIZE, count |-> count - 1]
    ELSE [first |-> first, count |-> count]

\* sr.c 166-170: slide past the acknowledged prefix
RECURSIVE Slide(_, _, _)
Slide(first, count, acks) ==
    IF count > 0 /\ acks[buffer[first].seqnum]
    THEN Slide((first + 1) % WINDOWSIZE, count - 1, acks)
    ELSE [first |-> first, count |-> count]

A_inputNew_cumulative(packet) ==
    LET idx == FindIdx(packet.acknum, 0)
        found == idx # -1
        upto == {buffer[(windowfirst + i) % WINDOWSIZE].seqnum :
                    i \in 0..((idx - windowfirst) % WINDOWSIZE)}
        acks == IF found
                THEN [s \in DOMAIN ack_received |-> ack_received[s] \/ s \in upto]
                ELSE ack_received
        stop == found /\ timer_active[idx]
        slid == Slide(windowfirst, windowcount, acks)
    IN  [branch |-> "new",
         acks |-> acks,
         tactive |-> IF stop THEN [timer_active EXCEPT ![idx] = FALSE] ELSE timer_active,
         calls |-> IF stop THEN <<"stop">> ELSE <<>>,
         first |-> slid.first,
         count |-> slid.count]

\* sr.c 143-171: a new ACK: mark the packet, stop the timer if its slot's flag is
\* set, slide the window
A_inputNew(packet) ==
    LET idx == FindIdx(packet.acknum, 0)
        found == idx # -1
        acks == IF found THEN [ack_received EXCEPT ![packet.acknum] = TRUE]
                ELSE ack_received
        stop == found /\ timer_active[idx]
        slid == Slide(windowfirst, windowcount, acks)
    IN  [branch |-> "new",
         acks |-> acks,
         tactive |-> IF stop THEN [timer_active EXCEPT ![idx] = FALSE] ELSE timer_active,
         calls |-> IF stop THEN <<"stop">> ELSE <<>>,
         first |-> slid.first,
         count |-> slid.count]

A_inputDuplicate_stop(packet) ==
    [branch |-> "duplicate", acks |-> ack_received, tactive |-> timer_active,
     calls |-> <<"stop">>, first |-> windowfirst, count |-> windowcount]

\* sr.c 172-173: a duplicate ACK or one outside the window: do nothing
A_inputDuplicate(packet) ==
    [branch |-> "duplicate", acks |-> ack_received, tactive |-> timer_active,
     calls |-> <<>>, first |-> windowfirst, count |-> windowcount]

A_inputCorrupted_stop(packet) ==
    [branch |-> "corrupted", acks |-> ack_received, tactive |-> timer_active,
     calls |-> <<"stop">>, first |-> windowfirst, count |-> windowcount]

\* sr.c 175-177: a corrupted ACK: do nothing
A_inputCorrupted(packet) ==
    [branch |-> "corrupted", acks |-> ack_received, tactive |-> timer_active,
     calls |-> <<>>, first |-> windowfirst, count |-> windowcount]

\* sr.c 119-178: what A_input does with a packet
A_inputEffect(packet) ==
    IF ~IsCorrupted(packet)
    THEN IF IsNewAck(packet) THEN A_inputNew(packet) ELSE A_inputDuplicate(packet)
    ELSE A_inputCorrupted(packet)

A_input ==
    /\ chanBA # <<>>
    /\ chanBA' = Tail(chanBA)
    /\ \E arr \in Arrivals :
          LET packet == Corrupt(Head(chanBA), arr)
              e == A_inputEffect(packet)
          IN  /\ ack_received' = e.acks
              /\ timer_active' = e.tactive
              /\ timerA' = TimerAfter(timerA, e.calls)
              /\ windowfirst' = e.first
              /\ windowcount' = e.count
              /\ last' = Event("A_input", e.branch, packet, <<>>, e.calls)
    /\ UNCHANGED <<buffer, windowlast, A_nextseqnum, window_full, receiverVars,
                   chanAB, carried, nsim, accepted, delivered>>

FirstUnacked_last(i) ==
    IF windowcount = 0 THEN -1 ELSE windowlast

\* sr.c 194-208: the first window slot whose packet is unacknowledged, -1 if none
RECURSIVE FirstUnacked(_)
FirstUnacked(i) ==
    IF i >= windowcount THEN -1
    ELSE LET idx == (windowfirst + i) % WINDOWSIZE
         IN  IF ~ack_received[buffer[idx].seqnum] THEN idx ELSE FirstUnacked(i + 1)

\* the emulator calls A_timerinterrupt when the armed timer expires (disarming it)
A_timerinterrupt(open) ==
    /\ timerA
    /\ LET idx == FirstUnacked(0) IN
       IF idx # -1
       THEN /\ \E how \in Outcomes :
                  /\ chanAB' = tolayer3(chanAB, buffer[idx], how, open)
                  /\ carried' = CarriedAfter(how, open)
            /\ timerA' = TimerAfter(FALSE, <<"start">>)
            /\ last' = Event("A_timerinterrupt", "resent", ZeroPkt, <<buffer[idx]>>,
                             <<"start">>)
       ELSE /\ UNCHANGED <<chanAB, carried>>
            /\ timerA' = FALSE
            /\ last' = Event("A_timerinterrupt", "idle", ZeroPkt, <<>>, <<>>)
    /\ UNCHANGED <<senderVars, receiverVars, chanBA, nsim, accepted, delivered>>

(* ----------------------------- receiver B ----------------------------- *)
B_init ==
    /\ expectedseqnum = 0
    /\ B_nextseqnum = 0
    /\ recv_base = 0
    /\ recv_windowsize = WINDOWSIZE
    /\ packet_received = [i \in 0..(SEQSPACE - 1) |-> FALSE]
    /\ recv_buffer = [i \in 0..(WINDOWSIZE - 1) |-> ZeroPkt]

rel_seqnum_nowrap(seqnum) == seqnum - recv_base

\* sr.c 260-263: distance of seqnum from recv_base
rel_seqnum(seqnum) ==
    IF seqnum >= recv_base THEN seqnum - recv_base
    ELSE SEQSPACE - recv_base + seqnum

\* sr.c 288: the buffer slot the j-th cascaded delivery reads
DeliverSlot(j) == j % recv_windowsize

\* sr.c 280-294: the do-while loop; out collects the payloads given to tolayer5
RECURSIVE Cascade(_, _, _, _, _)
Cascade(base, j, flags, buf, out) ==
    LET base1 == (base + 1) % SEQSPACE
        j1 == j + 1
    IN  IF flags[base1]
        THEN Cascade(base1, j1, [flags EXCEPT ![base1] = FALSE], buf,
                     Append(out, buf[DeliverSlot(j1)].payload))
        ELSE [base |-> base1, flags |-> flags, out |-> out]

AckNumFor_base(packet) == recv_base

\* sr.c 299: the acknum of the ACK for an arrived packet
AckNumFor(packet) == packet.seqnum

\* sr.c 310-318: the ACK packet
MakeAckPkt(seqnum, acknum) ==
    LET p == [seqnum |-> seqnum, acknum |-> acknum, checksum |-> 0,
              payload |-> [i \in 0..(PayloadLen - 1) |-> AckFill]]
    IN  [p EXCEPT !.checksum = ComputeChecksum(p)]

\* sr.c 255-300, 309-323: an uncorrupted packet: buffer it if it is in the
\* window, deliver from recv_base on, and send the ACK
B_inputAccept(packet) ==
    LET rel == rel_seqnum(packet.seqnum)
        inwin == rel < recv_windowsize
        flags == [packet_received EXCEPT ![packet.seqnum] = TRUE]
        buf == [recv_buffer EXCEPT ![rel] = packet]
        atbase == inwin /\ packet.seqnum = recv_base
        c == Cascade(recv_base, 0, flags, buf, <<packet.payload>>)
    IN  [branch |-> IF atbase THEN "base" ELSE IF inwin THEN "buffered" ELSE "outside",
         buf |-> IF inwin THEN buf ELSE recv_buffer,
         base |-> IF atbase THEN c.base ELSE recv_base,
         flags |-> IF atbase THEN c.flags ELSE IF inwin THEN flags ELSE packet_received,
         out |-> IF atbase THEN c.out ELSE <<>>,
         nextseq |-> (B_nextseqnum + 1) % 2,
         sent |-> <<MakeAckPkt(B_nextseqnum, AckNumFor(packet))>>]

B_inputCorrupted_ack(packet) ==
    [branch |-> "corrupted", buf |-> recv_buffer, base |-> recv_base,
     flags |-> packet_received, out |-> <<>>, nextseq |-> (B_nextseqnum + 1) % 2,
     sent |-> <<MakeAckPkt(B_nextseqnum, (recv_base + SEQSPACE - 1) % SEQSPACE)>>]

\* sr.c 302-307: a corrupted packet: return without an ACK
B_inputCorrupted(packet) ==
    [branch |-> "corrupted", buf |-> recv_buffer, base |-> recv_base,
     flags |-> packet_received, out |-> <<>>, nextseq |-> B_nextseqnum, sent |-> <<>>]

\* sr.c 248-324: what B_input does with a packet
B_inputEffect(packet) ==
    IF ~IsCorrupted(packet) THEN B_inputAccept(packet) ELSE B_inputCorrupted(packet)

B_input(open) ==
    /\ chanAB # <<>>
    /\ chanAB' = Tail(chanAB)
    /\ \E arr \in Arrivals :
          LET packet == Corrupt(Head(chanAB), arr)
              e == B_inputEffect(packet)
          IN  /\ recv_buffer' = e.buf
              /\ recv_base' = e.base
              /\ packet_received' = e.flags
              /\ delivered' = delivered \o e.out
              /\ B_nextseqnum' = e.nextseq
              /\ IF e.sent = <<>>
                 THEN UNCHANGED <<chanBA, carried>>
                 ELSE \E how \in Outcomes :
                         /\ chanBA' = tolayer3(chanBA, e.sent[1], how, open)
                         /\ carried' = CarriedAfter(how, open)
              /\ last' = Event("B_input", e.branch, packet, e.sent, <<>>)
    /\ UNCHANGED <<senderVars, expectedseqnum, recv_windowsize, timerA, nsim, accepted>>

(* --------------------------- specification ---------------------------- *)
Init ==
    /\ A_init
    /\ B_init
    /\ chanAB = <<>>
    /\ chanBA = <<>>
    /\ carried = 0
    /\ timerA = FALSE
    /\ nsim = 0
    /\ accepted = <<>>
    /\ delivered = <<>>
    /\ last = Event("init", "none", ZeroPkt, <<>>, <<>>)

\* the protocol over channels that carry MaxCarried packets in all
Next ==
    \/ A_output(BudgetOpen, MoreMsgs)
    \/ A_input
    \/ A_timerinterrupt(BudgetOpen)
    \/ B_input(BudgetOpen)

Spec == Init /\ [][Next]_vars

\* the protocol over channels that hold MaxFlight packets at a time
LinkNext ==
    \/ A_output(LinkOpen, MoreMsgs)
    \/ A_input
    \/ A_timerinterrupt(LinkOpen)
    \/ B_input(ReplyOpen)

LinkSpec == Init /\ [][LinkNext]_vars

\* the same link under a layer 5 that paces its messages, through one cycle
\* of the sequence space and into the next
WrapNext ==
    \/ A_output(LinkOpen, PacedMsgs)
    \/ A_input
    \/ A_timerinterrupt(LinkOpen)
    \/ B_input(ReplyOpen)

WrapSpec == Init /\ [][WrapNext]_vars

(* ------------------------------- claims ------------------------------- *)
Range(f) == {f[i] : i \in DOMAIN f}
Count(seq, x) == Cardinality({i \in DOMAIN seq : seq[i] = x})

\* C1: no message accepted by A_output is handed to tolayer5 more than once.
C1_NoDuplicateDelivery ==
    \A m \in Range(accepted) : Count(delivered, m) <= 1

\* C2: the payloads handed to tolayer5 are a prefix of the accepted messages,
\* in acceptance order, with no gap and no other payload.
C2_InOrderDelivery ==
    /\ Len(delivered) <= Len(accepted)
    /\ \A i \in DOMAIN delivered : delivered[i] = accepted[i]

\* nothing can happen any more: layer 5 is done, no packet is in flight and
\* the timer is not armed
AtRest ==
    /\ nsim = MaxMsgs
    /\ chanAB = <<>>
    /\ chanBA = <<>>
    /\ ~timerA

\* C3: the sender never comes to rest with unacknowledged packets outstanding
\* (from there no retransmission can occur and the messages are never delivered).
C3_NoStuckSender ==
    AtRest => windowcount = 0

\* C4: the sender never has more than WINDOWSIZE packets outstanding.
C4_WindowBound ==
    0 <= windowcount /\ windowcount <= WINDOWSIZE

\* the window is still full after A_input has processed an ACK
C4_Witness ==
    /\ windowcount = WINDOWSIZE
    /\ last.op = "A_input"
    /\ last.branch = "new"

\* the packets outstanding in the sender window, oldest first
WindowSlots == {(windowfirst + i) % WINDOWSIZE : i \in 0..(windowcount - 1)}
Outstanding(seqnum) == \E idx \in WindowSlots : buffer[idx].seqnum = seqnum

\* an uncorrupted ACK that is stale: not for an outstanding packet, or for one
\* already marked acknowledged
StaleAck(packet) ==
    /\ ~IsCorrupted(packet)
    /\ packet.acknum \in 0..(SEQSPACE - 1)
    /\ ~Outstanding(packet.acknum) \/ ack_received[packet.acknum]

\* C5: A_input on a stale ACK leaves the sender's state and the timer as they
\* were and transmits nothing.
C5_StaleAckNoChange ==
    [][(last'.op = "A_input" /\ StaleAck(last'.pkt)) =>
          /\ UNCHANGED <<windowfirst, windowlast, windowcount, A_nextseqnum, buffer,
                         ack_received, timerA, chanAB>>
          /\ last'.sent = <<>>
          /\ last'.timer = <<>>]_vars

\* a second ACK for a packet the window has slid past has been processed while
\* other packets are outstanding and the timer is armed
C5_Witness ==
    /\ last.op = "A_input"
    /\ last.branch = "duplicate"
    /\ ~Outstanding(last.pkt.acknum)
    /\ windowcount > 0
    /\ timerA

\* C6: B_input answers every uncorrupted packet with exactly one ACK whose
\* acknum is the packet's seqnum.
C6_IndividualAck ==
    [][(last'.op = "B_input" /\ ~IsCorrupted(last'.pkt)) =>
          /\ Len(last'.sent) = 1
          /\ last'.sent[1].acknum = last'.pkt.seqnum]_vars

\* an uncorrupted packet outside the receive window (already delivered) has
\* been acknowledged with its own number, which is not the one before recv_base
C6_Witness ==
    /\ last.op = "B_input"
    /\ last.branch = "outside"
    /\ Len(last.sent) = 1
    /\ last.sent[1].acknum # (recv_base + SEQSPACE - 1) % SEQSPACE

\* C7: B_input on a corrupted packet transmits nothing, delivers nothing and
\* leaves the receiver's state unchanged.
C7_CorruptedPacketIgnored ==
    [][(last'.op = "B_input" /\ IsCorrupted(last'.pkt)) =>
          /\ last'.sent = <<>>
          /\ UNCHANGED <<recv_base, recv_buffer, packet_received, B_nextseqnum,
                         delivered, chanBA>>]_vars

\* a corrupted packet has arrived at B while B holds a buffered packet
C7_Witness ==
    /\ last.op = "B_input"
    /\ IsCorrupted(last.pkt)
    /\ \E s \in 0..(SEQSPACE - 1) : packet_received[s] /\ s # recv_base

\* C8: A_input on a corrupted packet leaves the sender's state and the timer
\* unchanged and transmits nothing.
C8_CorruptedAckIgnored ==
    [][(last'.op = "A_input" /\ IsCorrupted(last'.pkt)) =>
          /\ UNCHANGED <<windowfirst, windowlast, windowcount, A_nextseqnum, buffer,
                         ack_received, timer_active, timerA, chanAB>>
          /\ last'.sent = <<>>
          /\ last'.timer = <<>>]_vars

\* a corrupted ACK has arrived at A while packets are outstanding and the
\* timer is armed
C8_Witness ==
    /\ last.op = "A_input"
    /\ IsCorrupted(last.pkt)
    /\ windowcount > 0
    /\ timerA

\* the window positions (0 = base) of the unacknowledged packets
UnackedPos ==
    {i \in 0..(windowcount - 1) :
        ~ack_received[buffer[(windowfirst + i) % WINDOWSIZE].seqnum]}

\* the packet A_output built for the message now at window position i
OriginalPkt(i) ==
    MakeDataPkt((A_nextseqnum + SEQSPACE - windowcount + i) % SEQSPACE,
                accepted[Len(accepted) - windowcount + i + 1])

\* C9: a timer expiry resends exactly the oldest unacknowledged packet, which
\* is the packet at the window base as A_output built it, and restarts the
\* timer; with no unacknowledged packet it sends nothing and starts no timer;
\* the window is unchanged.
C9_SelectiveRetransmit ==
    [][last'.op = "A_timerinterrupt" =>
          /\ Len(last'.sent) <= 1
          /\ IF UnackedPos # {}
             THEN /\ 0 \in UnackedPos
                  /\ last'.sent = <<buffer[windowfirst]>>
                  /\ last'.sent = <<OriginalPkt(0)>>
                  /\ last'.timer = <<"start">>
                  /\ timerA'
             ELSE /\ last'.sent = <<>>
                  /\ last'.timer = <<>>
                  /\ ~timerA'
          /\ UNCHANGED <<windowfirst, windowlast, windowcount, A_nextseqnum,
                         ack_received, buffer>>]_vars

\* the timer has expired with several packets outstanding, a later one of
\* them acknowledged, and one packet was resent
C9_Witness ==
    /\ last.op = "A_timerinterrupt"
    /\ Len(last.sent) = 1
    /\ windowcount >= 3
    /\ UnackedPos # 0..(windowcount - 1)

\* C10: A_output with a full window drops the message: nothing is sent, no
\* timer call is made and only window_full changes; the sequence-number cursor
\* moves, by 1 mod SEQSPACE, exactly on an accepted submission.
C10_WindowFullDrop ==
    [][/\ (last'.op = "A_output" /\ windowcount = WINDOWSIZE) =>
             /\ last'.sent = <<>>
             /\ last'.timer = <<>>
             /\ window_full' = window_full + 1
             /\ UNCHANGED <<windowfirst, windowlast, windowcount, A_nextseqnum,
                            buffer, ack_received, timerA, chanAB, accepted>>
       /\ (last'.op = "A_output" /\ windowcount < WINDOWSIZE) =>
             /\ A_nextseqnum' = (A_nextseqnum + 1) % SEQSPACE
             /\ accepted' = Append(accepted, MsgData(nsim))
       /\ last'.op # "A_output" => A_nextseqnum' = A_nextseqnum]_vars

\* a message has been dropped at a full window in which a packet is already
\* acknowledged
C10_Witness ==
    /\ last.op = "A_output"
    /\ last.branch = "full"
    /\ window_full > 0
    /\ windowcount = WINDOWSIZE
    /\ UnackedPos # 0..(windowcount - 1)

\* the sum of the first n bytes of a payload
RECURSIVE ByteSum(_, _)
ByteSum(p, n) == IF n = 0 THEN 0 ELSE p[n - 1] + ByteSum(p, n - 1)

\* C11: every packet handed to tolayer3 by A_output, A_timerinterrupt or B_input
\* carries checksum = seqnum + acknum + the sum of its 20 payload bytes.
C11_ChecksumSoundness ==
    \A i \in DOMAIN last.sent :
        LET packet == last.sent[i]
        IN  packet.checksum
              = packet.seqnum + packet.acknum + ByteSum(packet.payload, PayloadLen)

\* a retransmission of a packet other than the first one
C11_Witness ==
    /\ last.op = "A_timerinterrupt"
    /\ Len(last.sent) = 1
    /\ last.sent[1].seqnum > 0
    /\ last.sent[1].checksum > 0

\* C12: at the end of every sender entry point, and so after A_input has
\* processed a new ACK, unacknowledged packets in the window have the timer armed.
C12_TimerCoversWindow == windowcount > 0 => timerA

\* C13: starttimer is never called while A's timer is armed (the timer that has
\* just expired is not armed), and A_output calls it only when the packet it
\* has just sent is the only outstanding one.
C13_SingleTimer ==
    [][("start" \in Range(last'.timer)) =>
          /\ last'.op = "A_timerinterrupt" \/ ~timerA
          /\ last'.op = "A_output" => windowcount' = 1]_vars

\* the receive buffer holds a packet with this seqnum and this payload
Buffered(seqnum, payload) ==
    \E slot \in DOMAIN recv_buffer :
        recv_buffer[slot].seqnum = seqnum /\ recv_buffer[slot].payload = payload

\* C14: an uncorrupted packet arriving at recv_base is delivered, and after it,
\* for each following sequence number recv_base passes, the payload of the
\* buffered packet that carries that sequence number.
C14_CascadeDelivery ==
    [][(last'.op = "B_input" /\ ~IsCorrupted(last'.pkt)
          /\ last'.pkt.seqnum = recv_base) =>
          LET n == Len(delivered') - Len(delivered)
          IN  /\ n >= 1
              /\ recv_base' = (recv_base + n) % SEQSPACE
              /\ delivered'[Len(delivered) + 1] = last'.pkt.payload
              /\ \A k \in 1..(n - 1) :
                    Buffered((recv_base + k) % SEQSPACE,
                             delivered'[Len(delivered) + 1 + k])]_vars

\* C15: B_input on an uncorrupted packet whose offset from recv_base is
\* WINDOWSIZE or more delivers nothing, leaves recv_base, recv_buffer and
\* packet_received as they were, sends the ACK for that seqnum and toggles
\* B_nextseqnum.
C15_OutsideWindow ==
    [][(last'.op = "B_input" /\ ~IsCorrupted(last'.pkt)
          /\ (last'.pkt.seqnum - recv_base) % SEQSPACE >= WINDOWSIZE) =>
          /\ UNCHANGED <<recv_base, recv_buffer, packet_received, delivered,
                         senderVars, timerA>>
          /\ B_nextseqnum' = 1 - B_nextseqnum
          /\ Len(last'.sent) = 1
          /\ last'.sent[1].acknum = last'.pkt.seqnum
          /\ last'.sent[1].seqnum = B_nextseqnum]_vars

\* a packet delivered earlier has arrived again behind the receive window
C15_Witness ==
    /\ last.op = "B_input"
    /\ ~IsCorrupted(last.pkt)
    /\ (last.pkt.seqnum - recv_base) % SEQSPACE >= WINDOWSIZE
    /\ ~packet_received[last.pkt.seqnum]
    /\ delivered # <<>>

\* C16: at the end of every sender entry point the window is empty or the
\* packet at buffer[windowfirst] is unacknowledged, and windowcount is the
\* number of slots from windowfirst to windowlast.
C16_BaseUnacked ==
    /\ windowcount = 0 \/ ~ack_received[buffer[windowfirst].seqnum]
    /\ windowcount \in 0..WINDOWSIZE
    /\ (windowlast - windowfirst + 1) % WINDOWSIZE = windowcount % WINDOWSIZE

\* a new ACK for the base has slid the window past two acknowledged packets
\* and stopped at an unacknowledged one
C16_Witness ==
    /\ last.op = "A_input"
    /\ last.branch = "new"
    /\ windowcount > 0
    /\ windowfirst >= 2
    /\ last.pkt.acknum = buffer[windowfirst - 2].seqnum
    /\ ack_received[buffer[windowfirst - 1].seqnum]

\* an uncorrupted ACK for an outstanding, unacknowledged packet behind the base
NonBaseAck(packet) ==
    /\ ~IsCorrupted(packet)
    /\ packet.acknum \in 0..(SEQSPACE - 1)
    /\ Outstanding(packet.acknum)
    /\ ~ack_received[packet.acknum]
    /\ packet.acknum # buffer[windowfirst].seqnum

\* C17: A_input on an ACK for an outstanding, unacknowledged packet that is not
\* the window base marks that sequence number and no other, and leaves
\* windowfirst, windowcount, A_nextseqnum and the buffer as they were.
C17_SelectiveAck ==
    [][(last'.op = "A_input" /\ NonBaseAck(last'.pkt)) =>
          /\ ack_received' = [ack_received EXCEPT ![last'.pkt.acknum] = TRUE]
          /\ UNCHANGED <<windowfirst, windowlast, windowcount, A_nextseqnum, buffer,
                         window_full>>
          /\ last'.sent = <<>>]_vars

\* the sender, blocked at a full window, has processed an ACK for a packet
\* behind the unacknowledged base
C17_Witness ==
    /\ last.op = "A_input"
    /\ last.branch = "new"
    /\ windowcount = WINDOWSIZE
    /\ Outstanding(last.pkt.acknum)
    /\ ack_received[last.pkt.acknum]
    /\ last.pkt.acknum # buffer[windowfirst].seqnum
    /\ ~ack_received[buffer[windowfirst].seqnum]

\* C18: at the end of every B_input call packet_received[s] is true only for
\* sequence numbers inside the receive window strictly after recv_base; the
\* flag of every delivered sequence number is false.
C18_FlagHygiene ==
    \A s \in DOMAIN packet_received :
        packet_received[s] =>
            /\ (s - recv_base) % SEQSPACE > 0
            /\ (s - recv_base) % SEQSPACE < WINDOWSIZE

\* an ack_received entry turns true only in A_input, on an uncorrupted ACK with
\* that acknum for an outstanding packet
AckSetOnlyByAck ==
    \A s \in DOMAIN ack_received :
        (~ack_received[s] /\ ack_received'[s]) =>
            /\ last'.op = "A_input"
            /\ ~IsCorrupted(last'.pkt)
            /\ last'.pkt.acknum = s
            /\ Outstanding(s)

\* C19: an ack_received entry turns true only when A_input processes a new,
\* in-window, uncorrupted ACK with that acknum, and no sender operation sets a
\* true entry back to false.
C19_AckSetLifetime ==
    [][/\ AckSetOnlyByAck
       /\ \A s \in DOMAIN ack_received : ack_received[s] => ack_received'[s]]_vars

\* C19 as the code has it: a true entry is set back to false by A_output alone,
\* and only the entry of the sequence number it gives to the new packet.
C19_AckSetUntilReuse ==
    [][/\ AckSetOnlyByAck
       /\ \A s \in DOMAIN ack_received :
             (ack_received[s] /\ ~ack_received'[s]) =>
                 /\ last'.op = "A_output"
                 /\ last'.branch = "accepted"
                 /\ s = A_nextseqnum
                 /\ last'.sent[1].seqnum = s]_vars

\* A_output has given sequence number 0 to a second packet, after the ACKs of
\* the first cycle of the sequence space
C19_Witness ==
    /\ last.op = "A_output"
    /\ last.branch = "accepted"
    /\ Len(accepted) > SEQSPACE
    /\ last.sent[1].seqnum = 0
    /\ ~ack_received[0]
    /\ \A s \in 1..(SEQSPACE - 1) : ack_received[s]

\* the sender's oldest unacknowledged sequence number, A_nextseqnum when the
\* window is empty
OldestUnacked == IF windowcount = 0 THEN A_nextseqnum ELSE buffer[windowfirst].seqnum

\* C20: recv_base has advanced (once per payload handed to tolayer5) at most as
\* many times as A_output has accepted messages, and lies in the span from the
\* sender's oldest unacknowledged sequence number to A_nextseqnum.
C20_NoRunAhead ==
    /\ Len(delivered) <= Len(accepted)
    /\ (recv_base - OldestUnacked) % SEQSPACE
          <= (A_nextseqnum - OldestUnacked) % SEQSPACE

=============================================================================
